---- MODULE Spec2Model ----
(***************************************************************************)
(* Model of the playground's span-attribute normalisation code:            *)
(*   app/src/schemas/toolCallSchemas.ts                                    *)
(*   app/src/pages/playground/playgroundUtils.ts                           *)
(*                                                                         *)
(* JSON values are tagged records [t, v]:                                  *)
(*   null, undefined, str, num, arr (v a sequence), obj (v a function      *)
(*   from key strings to JSON values).  A thrown exception is the value    *)
(*   [t |-> "fault", v |-> <error name>], which every caller propagates.   *)
(***************************************************************************)
EXTENDS Integers, Sequences, FiniteSets, TLC

VARIABLES op, input, result, messageId, toolId

vars == <<op, input, result, messageId, toolId>>

----------------------------------------------------------------------------
(* JSON values *)

Null == [t |-> "null"]

Undefined == [t |-> "undefined"]

Str(s) == [t |-> "str", v |-> s]

Num(n) == [t |-> "num", v |-> n]

Arr(q) == [t |-> "arr", v |-> q]

Obj(f) == [t |-> "obj", v |-> f]

Fault(e) == [t |-> "fault", v |-> e]

IsFault(x) == "t" \in DOMAIN x /\ x.t = "fault"

\* the object with no keys
NoKeys == [k \in {} |-> Null]

\* v.key of a JavaScript value: undefined when the key is missing
Get(x, key) ==
  IF x.t = "obj" /\ key \in DOMAIN x.v THEN x.v[key] ELSE Undefined

\* x == null in JavaScript (loose): null or undefined
IsNullish(x) == "t" \in DOMAIN x /\ x.t \in {"null", "undefined"}

\* an object field that is left out when its value is Undefined
Field(key, x) == IF x.t = "undefined" THEN NoKeys ELSE (key :> x)

\* the first fault among the elements of a sequence, if any
FirstFault(q) ==
  LET bad == {i \in 1..Len(q) : IsFault(q[i])}
  IN  q[CHOOSE i \in bad : \A j \in bad : i <= j]

\* an array built by map(): the exception of the first faulting element
\* propagates out of the whole map
ArrOrFault(q) ==
  IF \E i \in 1..Len(q) : IsFault(q[i]) THEN FirstFault(q) ELSE Arr(q)

----------------------------------------------------------------------------
(* toolCallSchemas.ts: zod schemas.  A schema is an operator giving the     *)
(* safeParse result [success, data].                                        *)

Failure == [success |-> FALSE, data |-> Undefined]

Success(d) == [success |-> TRUE, data |-> d]

\* z.string()
zString(x) == x.t = "str"

\* z.record(z.unknown()): any plain object, every value accepted
zRecord(x) == x.t = "obj"

\* z.object({name, arguments}).passthrough(): unknown keys are kept
openAIFunctionSchema(x) ==
  IF /\ x.t = "obj"
     /\ zString(Get(x, "name"))
     /\ zRecord(Get(x, "arguments"))
  THEN Success(x)
  ELSE Failure

\* z.object({id, function}): the default (strip) mode drops unknown keys
openAIToolCallSchema(x) ==
  IF /\ x.t = "obj"
     /\ zString(Get(x, "id"))
     /\ openAIFunctionSchema(Get(x, "function")).success
  THEN Success(Obj([k \in {"id", "function"} |->
                      IF k = "id" THEN x.v.id
                      ELSE openAIFunctionSchema(x.v.function).data]))
  ELSE Failure

\* z.object({id, type: literal "tool_use", name, input}).passthrough()
anthropicToolCallSchema(x) ==
  IF /\ x.t = "obj"
     /\ zString(Get(x, "id"))
     /\ Get(x, "type") = Str("tool_use")
     /\ zString(Get(x, "name"))
     /\ zRecord(Get(x, "input"))
  THEN Success(x)
  ELSE Failure

\* mutant: the converted call carries an empty arguments map
anthropicToolCallToOpenAIWithoutArguments(x) ==
  LET parsed == anthropicToolCallSchema(x)
      anthropic == parsed.data
  IN  IF ~parsed.success THEN Fault("ZodError")
      ELSE Obj([id |-> anthropic.v.id,
                function |-> Obj([name |-> anthropic.v.name,
                                  arguments |-> Obj(NoKeys)])])

\* anthropicToolCallSchema.transform(...).parse(x): throws when x fails the schema
anthropicToolCallToOpenAI(x) ==
  LET parsed == anthropicToolCallSchema(x)
      anthropic == parsed.data
  IN  IF ~parsed.success THEN Fault("ZodError")
      ELSE Obj([id |-> anthropic.v.id,
                function |-> Obj([name |-> anthropic.v.name,
                                  arguments |-> anthropic.v.input])])

\* mutant: the Anthropic call is given the id as its name
openAIToolCallToAnthropicNamedById(x) ==
  LET parsed == openAIToolCallSchema(x)
      openai == parsed.data
      arguments == Get(Get(openai, "function"), "arguments")
  IN  IF ~parsed.success THEN Fault("ZodError")
      ELSE Obj([id |-> openai.v.id,
                type |-> Str("tool_use"),
                name |-> openai.v.id,
                input |-> IF arguments.t = "str"
                          THEN Obj(arguments.v :> arguments)
                          ELSE IF IsNullish(arguments) THEN Obj(NoKeys)
                          ELSE arguments])

\* openAIToolCallSchema.transform(...).parse(x): throws when x fails the schema
openAIToolCallToAnthropic(x) ==
  LET parsed == openAIToolCallSchema(x)
      openai == parsed.data
      arguments == Get(Get(openai, "function"), "arguments")
  IN  IF ~parsed.success THEN Fault("ZodError")
      ELSE Obj([id |-> openai.v.id,
                type |-> Str("tool_use"),
                name |-> openai.v.function.v.name,
                input |-> IF arguments.t = "str"
                          THEN Obj(arguments.v :> arguments)
                          ELSE IF IsNullish(arguments) THEN Obj(NoKeys)
                          ELSE arguments])

\* mutant: the Anthropic schema is tried first
detectToolCallProviderAnthropicFirst(toolCall) ==
  LET openai == openAIToolCallSchema(toolCall)
      anthropic == anthropicToolCallSchema(toolCall)
  IN  IF anthropic.success
      THEN [provider |-> "ANTHROPIC", validatedToolCall |-> anthropic.data]
      ELSE IF openai.success
      THEN [provider |-> "OPENAI", validatedToolCall |-> openai.data]
      ELSE [provider |-> "UNKNOWN", validatedToolCall |-> Null]

detectToolCallProvider(toolCall) ==
  LET openai == openAIToolCallSchema(toolCall)
      anthropic == anthropicToolCallSchema(toolCall)
  IN  IF openai.success
      THEN [provider |-> "OPENAI", validatedToolCall |-> openai.data]
      ELSE IF anthropic.success
      THEN [provider |-> "ANTHROPIC", validatedToolCall |-> anthropic.data]
      ELSE [provider |-> "UNKNOWN", validatedToolCall |-> Null]

\* the keys of ProviderToToolCallMap: the closed provider enum
ModelProvider == {"OPENAI", "AZURE_OPENAI", "ANTHROPIC", "GEMINI"}

\* mutant: an OpenAI-dialect input is returned as given, not as validated
toOpenAIToolCallReturnsInput(toolCall) ==
  LET detected == detectToolCallProvider(toolCall)
  IN  CASE detected.provider \in {"AZURE_OPENAI", "OPENAI"} -> toolCall
        [] detected.provider = "ANTHROPIC" ->
             anthropicToolCallToOpenAI(detected.validatedToolCall)
        [] detected.provider = "UNKNOWN" -> Null
        [] OTHER -> Fault("Unreachable")

toOpenAIToolCall(toolCall) ==
  LET detected == detectToolCallProvider(toolCall)
  IN  CASE detected.provider \in {"AZURE_OPENAI", "OPENAI"} ->
             detected.validatedToolCall
        [] detected.provider = "ANTHROPIC" ->
             anthropicToolCallToOpenAI(detected.validatedToolCall)
        [] detected.provider = "UNKNOWN" -> Null
        [] OTHER -> Fault("Unreachable")

fromOpenAIToolCall(toolCall, targetProvider) ==
  CASE targetProvider \in {"AZURE_OPENAI", "OPENAI"} -> toolCall
    [] targetProvider = "ANTHROPIC" -> openAIToolCallToAnthropic(toolCall)
    [] targetProvider = "GEMINI" -> toolCall
    [] OTHER -> Fault("Unreachable")

----------------------------------------------------------------------------
(* playgroundUtils.ts: export of a message's tool calls toward a provider *)

convertToolCallToProvider(toolCall, provider) ==
  CASE provider \in {"OPENAI", "AZURE_OPENAI"} -> toOpenAIToolCall(toolCall)
    [] provider = "ANTHROPIC" ->
         fromOpenAIToolCall(toOpenAIToolCall(toolCall), provider)
    [] OTHER -> Fault("Unreachable")

convertMessageToolCallsToProvider(toolCalls, provider) ==
  IF IsNullish(toolCalls) THEN Undefined
  ELSE ArrOrFault([i \in 1..Len(toolCalls.v) |->
                     convertToolCallToProvider(toolCalls.v[i], provider)])

\* an empty OpenAI tool call
createOpenAIToolCall ==
  Obj([id |-> Str(""),
       function |-> Obj([name |-> Str(""), arguments |-> Obj(NoKeys)])])

\* an empty Anthropic tool call
createAnthropicToolCall ==
  Obj([id |-> Str(""), type |-> Str("tool_use"), name |-> Str(""),
       input |-> Obj(NoKeys)])

createToolCallForProvider(provider) ==
  CASE provider \in {"OPENAI", "AZURE_OPENAI"} -> createOpenAIToolCall
    [] provider = "ANTHROPIC" -> createAnthropicToolCall
    [] OTHER -> Fault("Unreachable")

----------------------------------------------------------------------------
(* Collaborators of playgroundUtils.ts: constants, JSON ingestion, the      *)
(* attribute schemas and the store's defaults and id generators.           *)

SPAN_ATTRIBUTES_PARSING_ERROR == "SPAN_ATTRIBUTES_PARSING_ERROR"

INPUT_MESSAGES_PARSING_ERROR == "INPUT_MESSAGES_PARSING_ERROR"

OUTPUT_MESSAGES_PARSING_ERROR == "OUTPUT_MESSAGES_PARSING_ERROR"

OUTPUT_VALUE_PARSING_ERROR == "OUTPUT_VALUE_PARSING_ERROR"

MODEL_CONFIG_PARSING_ERROR == "MODEL_CONFIG_PARSING_ERROR"

MODEL_CONFIG_WITH_INVOCATION_PARAMETERS_PARSING_ERROR ==
  "MODEL_CONFIG_WITH_INVOCATION_PARAMETERS_PARSING_ERROR"

TOOLS_PARSING_ERROR == "TOOLS_PARSING_ERROR"

\* the closed role enum
ChatMessageRole == {"system", "user", "assistant", "tool"}

\* ordered (canonicalRole, acceptedAliasStrings) pairs
ChatRoleMap ==
  << [role |-> "user", acceptedValues |-> {"human"}],
     [role |-> "assistant", acceptedValues |-> {"ai", "bot"}],
     [role |-> "system", acceptedValues |-> {"developer"}],
     [role |-> "tool", acceptedValues |-> {"function"}] >>

DEFAULT_CHAT_ROLE == "user"

\* ordered (provider, namePrefixes) pairs; a name or prefix is the sequence
\* of its characters
modelProviderToModelPrefixMap ==
  << [provider |-> "OPENAI",
      prefixes |-> <<<<"g", "p", "t">>, <<"o", "1">>>>],
     [provider |-> "AZURE_OPENAI", prefixes |-> <<>>],
     [provider |-> "ANTHROPIC",
      prefixes |-> << <<"c", "l", "a", "u", "d", "e">> >>] >>

DEFAULT_MODEL_PROVIDER == "OPENAI"

\* a text is either the serialisation of a JSON document or raw characters
JSONText(doc) == [kind |-> "serialized", doc |-> doc]

RawText(chars) == [kind |-> "raw", chars |-> chars]

\* the raw texts that are well-formed JSON, with the value each denotes
JSONLiterals ==
  ("{}" :> Obj(NoKeys))
  @@ ("{\"city\":\"SF\"}" :> Obj("city" :> Str("SF")))
  @@ ("[1]" :> Arr(<<Num(1)>>))
  @@ ("1" :> Num(1))
  @@ ("null" :> Null)

\* parse(text) -> {json, parseError}; never raises
safelyParseJSON(text) ==
  IF text.kind = "serialized"
  THEN [json |-> text.doc, parseError |-> Null]
  ELSE IF text.chars \in DOMAIN JSONLiterals
  THEN [json |-> JSONLiterals[text.chars], parseError |-> Null]
  ELSE [json |-> Null, parseError |-> Str("SyntaxError")]

\* a non-null, non-array object
isStringKeyedObject(x) == x.t = "obj"

\* an optional field: missing, or of the given shape
zOptional(x, ok) == x.t = "undefined" \/ ok

\* {tool_call: {id?, function?: {name?, arguments?: text}}}
toolCallEntrySchema(x) ==
  /\ x.t = "obj"
  /\ LET tool_call == Get(x, "tool_call")
         fn == Get(tool_call, "function")
     IN  zOptional(tool_call,
           /\ tool_call.t = "obj"
           /\ zOptional(Get(tool_call, "id"), zString(Get(tool_call, "id")))
           /\ zOptional(fn,
                /\ fn.t = "obj"
                /\ zOptional(Get(fn, "name"), zString(Get(fn, "name")))
                /\ zOptional(Get(fn, "arguments"),
                             zString(Get(fn, "arguments")))))

\* {message: {role: text, content?: text, tool_calls?: [...]}}
messageSchema(x) ==
  /\ x.t = "obj"
  /\ LET message == Get(x, "message")
         tool_calls == Get(message, "tool_calls")
     IN  /\ message.t = "obj"
         /\ zString(Get(message, "role"))
         /\ zOptional(Get(message, "content"), zString(Get(message, "content")))
         /\ zOptional(tool_calls,
              /\ tool_calls.t = "arr"
              /\ \A i \in 1..Len(tool_calls.v) :
                   toolCallEntrySchema(tool_calls.v[i]))

\* an ordered list of messages
messagesSchema(x) ==
  x.t = "arr" /\ \A i \in 1..Len(x.v) : messageSchema(x.v[i])

\* llm.input_messages: an ordered list of messages
llmInputMessageSchema(x) ==
  IF messagesSchema(Get(Get(x, "llm"), "input_messages"))
  THEN Success(x) ELSE Failure

\* llm.output_messages: an ordered list of messages
llmOutputMessageSchema(x) ==
  IF messagesSchema(Get(Get(x, "llm"), "output_messages"))
  THEN Success(x) ELSE Failure

\* output.value: a free-form text
outputSchema(x) ==
  IF zString(Get(Get(x, "output"), "value")) THEN Success(x) ELSE Failure

\* llm.model_name: a text
modelConfigSchema(x) ==
  IF zString(Get(Get(x, "llm"), "model_name")) THEN Success(x) ELSE Failure

\* the model-config shape plus llm.invocation_parameters: a map
modelConfigWithInvocationParametersSchema(x) ==
  IF /\ zString(Get(Get(x, "llm"), "model_name"))
     /\ zRecord(Get(Get(x, "llm"), "invocation_parameters"))
  THEN Success(x) ELSE Failure

\* {tool?: {json_schema}}
toolEntrySchema(x) ==
  /\ x.t = "obj"
  /\ zOptional(Get(x, "tool"),
       /\ Get(x, "tool").t = "obj"
       /\ "json_schema" \in DOMAIN Get(x, "tool").v)

\* llm.tools: missing (with or without the llm group), or an ordered list
llmToolSchema(x) ==
  LET llm == Get(x, "llm")
      tools == Get(llm, "tools")
  IN  IF /\ x.t = "obj"
         /\ zOptional(llm,
              /\ llm.t = "obj"
              /\ zOptional(tools,
                   /\ tools.t = "arr"
                   /\ \A i \in 1..Len(tools.v) : toolEntrySchema(tools.v[i])))
      THEN Success(x) ELSE Failure

\* the store's default model, template and tools
DefaultModel ==
  [modelName |-> <<"g", "p", "t", "-", "4", "o">>,
   provider |-> DEFAULT_MODEL_PROVIDER,
   invocationParameters |-> <<>>]

DefaultTemplate ==
  [__type |-> "chat",
   messages |-> <<[id |-> -1, role |-> "system",
                   content |-> Str("You are a chatbot"),
                   toolCalls |-> Undefined]>>]

createPlaygroundInstance ==
  [model |-> DefaultModel,
   template |-> DefaultTemplate,
   tools |-> <<>>,
   output |-> Undefined,
   spanId |-> Null]

\* generateMessageId / generateToolId: the n-th id issued after `next`
generateMessageId(next, n) == next + n

generateToolId(next, n) == next + n

----------------------------------------------------------------------------
(* playgroundUtils.ts: extraction of a playground instance from a span *)

\* x ?? fallback
OrElse(x, fallback) == IF IsNullish(x) THEN fallback ELSE x

\* a const declaration, written With([name \in {value} |-> body]): value is
\* computed once, then body reads it by name
With(f) == f[CHOOSE x \in DOMAIN f : TRUE]

isChatMessageRole(role) == role \in ChatMessageRole

getChatRole(role) ==
  LET hits == {i \in 1..Len(ChatRoleMap) : role \in ChatRoleMap[i].acceptedValues}
  IN  IF isChatMessageRole(role) THEN role
      ELSE IF hits # {}
      THEN ChatRoleMap[CHOOSE i \in hits : \A j \in hits : i <= j].role
      ELSE DEFAULT_CHAT_ROLE

\* the callback of toolCalls.map(...) in processAttributeToolCalls
processAttributeToolCall(entry, provider) ==
  LET tool_call == Get(entry, "tool_call")
      fn == Get(tool_call, "function")
      arguments == Get(fn, "arguments")
      parsedArguments == safelyParseJSON(RawText(arguments.v)).json
      toolCallArgs ==
        IF ~IsNullish(arguments) /\ isStringKeyedObject(parsedArguments)
        THEN parsedArguments ELSE Obj(NoKeys)
  IN  IF IsNullish(tool_call) THEN Null
      ELSE CASE provider \in {"OPENAI", "AZURE_OPENAI"} ->
                  Obj([id |-> OrElse(Get(tool_call, "id"), Str("")),
                       function |->
                         Obj([name |-> OrElse(Get(fn, "name"), Str("")),
                              arguments |-> toolCallArgs])])
             [] provider = "ANTHROPIC" ->
                  Obj([id |-> OrElse(Get(tool_call, "id"), Str("")),
                       type |-> Str("tool_use"),
                       name |-> OrElse(Get(fn, "name"), Str("")),
                       input |-> toolCallArgs])
             [] OTHER -> Fault("Unreachable")

NotNullish(x) == ~IsNullish(x)

processAttributeToolCalls(toolCalls, provider) ==
  IF IsNullish(toolCalls) THEN Undefined
  ELSE LET mapped == [i \in 1..Len(toolCalls.v) |->
                        processAttributeToolCall(toolCalls.v[i], provider)]
       IN  IF \E i \in 1..Len(mapped) : IsFault(mapped[i])
           THEN FirstFault(mapped)
           ELSE Arr(SelectSeq(mapped, NotNullish))

\* mutant: a message's id is its position in the input list
processAttributeMessagesToChatMessageIdFromInput(messages, provider, next) ==
  LET mapped ==
        [i \in 1..Len(messages) |->
           LET message == messages[i].v.message
               toolCalls == processAttributeToolCalls(
                              Get(message, "tool_calls"), provider)
           IN  IF IsFault(toolCalls) THEN toolCalls
               ELSE [id |-> i - 1,
                     role |-> getChatRole(message.v.role.v),
                     content |-> Get(message, "content"),
                     toolCalls |-> toolCalls]]
  IN  ArrOrFault(mapped)

\* messages: a sequence of validated {message} entries; next: the id counter
processAttributeMessagesToChatMessage(messages, provider, next) ==
  LET mapped ==
        [i \in 1..Len(messages) |->
           LET message == messages[i].v.message
               toolCalls == processAttributeToolCalls(
                              Get(message, "tool_calls"), provider)
           IN  IF IsFault(toolCalls) THEN toolCalls
               ELSE [id |-> generateMessageId(next, i - 1),
                     role |-> getChatRole(message.v.role.v),
                     content |-> Get(message, "content"),
                     toolCalls |-> toolCalls]]
  IN  ArrOrFault(mapped)

getTemplateMessagesFromAttributes(provider, parsedAttributes, next) ==
  LET inputMessages == llmInputMessageSchema(parsedAttributes)
      messages == processAttributeMessagesToChatMessage(
                    inputMessages.data.v.llm.v.input_messages.v, provider, next)
  IN  IF ~inputMessages.success
      THEN [messageParsingErrors |-> <<INPUT_MESSAGES_PARSING_ERROR>>,
            messages |-> Null]
      ELSE IF IsFault(messages) THEN messages
      ELSE [messageParsingErrors |-> <<>>, messages |-> messages]

getOutputFromAttributes(provider, parsedAttributes, next) ==
  LET outputMessages == llmOutputMessageSchema(parsedAttributes)
      messages == processAttributeMessagesToChatMessage(
                    outputMessages.data.v.llm.v.output_messages.v, provider, next)
      parsedOutput == outputSchema(parsedAttributes)
  IN  IF outputMessages.success
      THEN IF IsFault(messages) THEN messages
           ELSE [output |-> messages, outputParsingErrors |-> <<>>]
      ELSE IF parsedOutput.success
      THEN [output |-> parsedOutput.data.v.output.v.value,
            outputParsingErrors |-> <<OUTPUT_MESSAGES_PARSING_ERROR>>]
      ELSE [output |-> Undefined,
            outputParsingErrors |-> <<OUTPUT_MESSAGES_PARSING_ERROR,
                                      OUTPUT_VALUE_PARSING_ERROR>>]

\* modelName.includes(prefix)
Includes(text, part) ==
  \E i \in 0..(Len(text) - Len(part)) : SubSeq(text, i + 1, i + Len(part)) = part

\* mutant: the last provider with an occurring prefix wins
getModelProviderFromModelNameLastWins(modelName) ==
  LET table == modelProviderToModelPrefixMap
      hits == {i \in 1..Len(table) :
                 \E j \in 1..Len(table[i].prefixes) :
                   Includes(modelName, table[i].prefixes[j])}
  IN  IF hits # {}
      THEN table[CHOOSE i \in hits : \A j \in hits : i >= j].provider
      ELSE DEFAULT_MODEL_PROVIDER

getModelProviderFromModelName(modelName) ==
  LET table == modelProviderToModelPrefixMap
      hits == {i \in 1..Len(table) :
                 \E j \in 1..Len(table[i].prefixes) :
                   Includes(modelName, table[i].prefixes[j])}
  IN  IF hits # {}
      THEN table[CHOOSE i \in hits : \A j \in hits : i <= j].provider
      ELSE DEFAULT_MODEL_PROVIDER

getBaseModelConfigFromAttributes(parsedAttributes) ==
  LET parsed == modelConfigSchema(parsedAttributes)
      model_name == parsed.data.v.llm.v.model_name.v
  IN  IF parsed.success
      THEN [modelConfig |->
              [modelName |-> model_name,
               provider |-> getModelProviderFromModelName(model_name),
               invocationParameters |-> <<>>],
            parsingErrors |-> <<>>]
      ELSE [modelConfig |-> Null,
            parsingErrors |-> <<MODEL_CONFIG_PARSING_ERROR>>]

\* an object whose key order is observed carries its insertion order
OrderedObj(keys, f) == [t |-> "obj", v |-> f, order |-> keys]

\* Object.entries(x)
ObjectEntries(x) ==
  [i \in 1..Len(x.order) |-> [key |-> x.order[i], value |-> x.v[x.order[i]]]]

LowerLetters ==
  <<"a", "b", "c", "d", "e", "f", "g", "h", "i", "j", "k", "l", "m",
    "n", "o", "p", "q", "r", "s", "t", "u", "v", "w", "x", "y", "z">>

UpperLetters ==
  <<"A", "B", "C", "D", "E", "F", "G", "H", "I", "J", "K", "L", "M",
    "N", "O", "P", "Q", "R", "S", "T", "U", "V", "W", "X", "Y", "Z">>

IsLowerLetter(c) == \E i \in 1..Len(LowerLetters) : LowerLetters[i] = c

toUpperCaseChar(c) ==
  IF IsLowerLetter(c)
  THEN UpperLetters[CHOOSE i \in 1..Len(LowerLetters) : LowerLetters[i] = c]
  ELSE c

toLowerCaseChar(c) ==
  IF \E i \in 1..Len(UpperLetters) : UpperLetters[i] = c
  THEN LowerLetters[CHOOSE i \in 1..Len(UpperLetters) : UpperLetters[i] = c]
  ELSE c

\* String.prototype.toLowerCase on a sequence of characters
toLowerCase(str) == [i \in 1..Len(str) |-> toLowerCaseChar(str[i])]

RECURSIVE toCamelCaseFrom(_, _)
\* str.replace(/_([a-z])/g, ...) scanning from position i
toCamelCaseFrom(str, i) ==
  IF i > Len(str) THEN <<>>
  ELSE IF str[i] = "_" /\ i < Len(str) /\ IsLowerLetter(str[i + 1])
  THEN <<toUpperCaseChar(str[i + 1])>> \o toCamelCaseFrom(str, i + 2)
  ELSE <<str[i]>> \o toCamelCaseFrom(str, i + 1)

toCamelCase(str) == toCamelCaseFrom(str, 1)

\* a text that is neither null, undefined nor empty
Truthy(x) == x.t = "str" /\ x.v # <<>>

\* mutant: the names are compared exactly, not ignoring case
MatchesKeyExactCase(mp, key) ==
  \/ Truthy(mp.canonicalName) /\ mp.canonicalName.v = key
  \/ Truthy(mp.invocationName) /\ mp.invocationName.v = key

\* the predicate of modelSupportedInvocationParameters.find(...)
MatchesKey(mp, key) ==
  \/ Truthy(mp.canonicalName)
       /\ toLowerCase(mp.canonicalName.v) = toLowerCase(key)
  \/ Truthy(mp.invocationName)
       /\ toLowerCase(mp.invocationName.v) = toLowerCase(key)

\* Array.prototype.find: the first matching definition, or undefined
FindDefinition(definitions, key) ==
  LET hits == {i \in 1..Len(definitions) : MatchesKey(definitions[i], key)}
  IN  IF hits = {} THEN Undefined
      ELSE definitions[CHOOSE i \in hits : \A j \in hits : i <= j]

transformInvocationParametersFromAttributesToInvocationParameterInputs(invocationParameters, modelSupportedInvocationParameters) ==
  LET entries == ObjectEntries(invocationParameters)
      mapped ==
        [i \in 1..Len(entries) |->
           LET invocationParameter ==
                 FindDefinition(modelSupportedInvocationParameters,
                                entries[i].key)
           IN  IF \/ IsNullish(invocationParameter)
                  \/ IsNullish(invocationParameter.invocationInputField)
                  \/ IsNullish(invocationParameter.invocationName)
               THEN Null
               ELSE [canonicalName |-> invocationParameter.canonicalName,
                     invocationName |-> invocationParameter.invocationName,
                     slot |-> toCamelCase(
                                invocationParameter.invocationInputField.v),
                     value |-> entries[i].value]]
  IN  SelectSeq(mapped, NotNullish)

\* filter(...).map(...): the inputs a definition names are kept, and each
\* takes the invocationName of the first definition with its canonicalName
constrainInvocationParameterInputsToDefinition(invocationParameterInputs, definitions) ==
  LET Some(ip) ==
        \E i \in 1..Len(definitions) :
          LET mp == definitions[i]
          IN  \/ mp.invocationName = ip.invocationName
              \/ /\ ~IsNullish(mp.canonicalName)
                 /\ ~IsNullish(ip.canonicalName)
                 /\ mp.canonicalName = ip.canonicalName
      Find(ip) ==
        LET hits == {i \in 1..Len(definitions) :
                       definitions[i].canonicalName = ip.canonicalName}
        IN  IF hits = {} THEN Undefined
            ELSE definitions[CHOOSE i \in hits : \A j \in hits : i <= j]
      Renamed(ip) ==
        LET found == Find(ip)
        IN  IF IsNullish(found) \/ IsNullish(found.invocationName)
            THEN ip
            ELSE [ip EXCEPT !.invocationName = found.invocationName]
      filtered == SelectSeq(invocationParameterInputs, Some)
  IN  [i \in 1..Len(filtered) |-> Renamed(filtered[i])]

\* mutant: the raw invocation parameters are not reconciled
getModelInvocationParametersFromAttributesUnreconciled(parsedAttributes, modelSupportedInvocationParameters) ==
  LET parsed == modelConfigWithInvocationParametersSchema(parsedAttributes)
  IN  [invocationParameters |-> <<>>,
       parsingErrors |->
         IF parsed.success THEN <<>>
         ELSE <<MODEL_CONFIG_WITH_INVOCATION_PARAMETERS_PARSING_ERROR>>]

getModelInvocationParametersFromAttributes(parsedAttributes, modelSupportedInvocationParameters) ==
  LET parsed == modelConfigWithInvocationParametersSchema(parsedAttributes)
      raw == IF parsed.success
             THEN parsed.data.v.llm.v.invocation_parameters
             ELSE OrderedObj(<<>>, NoKeys)
  IN  [invocationParameters |->
         transformInvocationParametersFromAttributesToInvocationParameterInputs(
           raw, modelSupportedInvocationParameters),
       parsingErrors |->
         IF parsed.success THEN <<>>
         ELSE <<MODEL_CONFIG_WITH_INVOCATION_PARAMETERS_PARSING_ERROR>>]

HasTool(entry) == ~IsNullish(Get(entry, "tool"))

\* tools: the validated attributes; next: the tool id counter
processAttributeTools(tools, next) ==
  LET list == OrElse(Get(Get(tools, "llm"), "tools"), Arr(<<>>)).v
      kept == SelectSeq(list, HasTool)
  IN  [i \in 1..Len(kept) |->
         [id |-> generateToolId(next, i - 1),
          definition |-> Get(Get(kept[i], "tool"), "json_schema")]]

\* mutant: a missing llm.tools path is reported as a parsing error
getToolsFromAttributesAbsentIsError(parsedAttributes, next) ==
  LET parsed == llmToolSchema(parsedAttributes)
  IN  IF ~parsed.success \/ IsNullish(Get(Get(parsed.data, "llm"), "tools"))
      THEN [tools |-> Null, parsingErrors |-> <<TOOLS_PARSING_ERROR>>]
      ELSE [tools |-> Arr(processAttributeTools(parsed.data, next)),
            parsingErrors |-> <<>>]

getToolsFromAttributes(parsedAttributes, next) ==
  LET parsed == llmToolSchema(parsedAttributes)
  IN  IF ~parsed.success
      THEN [tools |-> Null, parsingErrors |-> <<TOOLS_PARSING_ERROR>>]
      ELSE IF IsNullish(Get(Get(parsed.data, "llm"), "tools"))
      THEN [tools |-> Null, parsingErrors |-> <<>>]
      ELSE [tools |-> Arr(processAttributeTools(parsed.data, next)),
            parsingErrors |-> <<>>]

\* mutant: the parse failure is recorded and the extraction steps still run
\* on the null attributes
parseErrorResultWithoutReturn(span, basePlaygroundInstance) ==
  [playgroundInstance |->
     [basePlaygroundInstance EXCEPT !.spanId = OrElse(span.id, Null)],
   parsingErrors |->
     <<SPAN_ATTRIBUTES_PARSING_ERROR,
       INPUT_MESSAGES_PARSING_ERROR,
       OUTPUT_MESSAGES_PARSING_ERROR,
       OUTPUT_VALUE_PARSING_ERROR,
       MODEL_CONFIG_PARSING_ERROR,
       TOOLS_PARSING_ERROR,
       MODEL_CONFIG_WITH_INVOCATION_PARAMETERS_PARSING_ERROR>>]

\* the return of the `if (parseError)` branch
parseErrorResult(span, basePlaygroundInstance) ==
  [playgroundInstance |->
     [basePlaygroundInstance EXCEPT !.spanId = OrElse(span.id, Null)],
   parsingErrors |-> <<SPAN_ATTRIBUTES_PARSING_ERROR>>]

\* mutant: the messages are kept only when the tools were extracted too
mergedPlaygroundInstanceToolsGateTemplate(span, basePlaygroundInstance, modelConfig, messages, output, tools) ==
  [model |-> OrElse(modelConfig, basePlaygroundInstance.model),
   template |->
     IF ~IsNullish(messages) /\ ~IsNullish(tools)
     THEN [__type |-> "chat", messages |-> messages.v]
     ELSE basePlaygroundInstance.template,
   tools |-> IF IsNullish(tools) THEN basePlaygroundInstance.tools ELSE tools.v,
   output |-> output,
   spanId |-> span.id]

\* the playgroundInstance of the final return: each extracted field, or the
\* base instance's field where the extraction gave none
mergedPlaygroundInstance(span, basePlaygroundInstance, modelConfig, messages, output, tools) ==
  [model |-> OrElse(modelConfig, basePlaygroundInstance.model),
   template |->
     IF ~IsNullish(messages)
     THEN [__type |-> "chat", messages |-> messages.v]
     ELSE basePlaygroundInstance.template,
   tools |-> IF IsNullish(tools) THEN basePlaygroundInstance.tools ELSE tools.v,
   output |-> output,
   spanId |-> span.id]

\* mutant: the model-config errors are spread before the output errors
mergedParsingErrorsModelConfigSecond(messageParsingErrors, outputParsingErrors, modelConfigParsingErrors, toolsParsingErrors, invocationParametersParsingErrors) ==
  messageParsingErrors
  \o modelConfigParsingErrors
  \o outputParsingErrors
  \o toolsParsingErrors
  \o invocationParametersParsingErrors

\* the parsingErrors of the final return
mergedParsingErrors(messageParsingErrors, outputParsingErrors, modelConfigParsingErrors, toolsParsingErrors, invocationParametersParsingErrors) ==
  messageParsingErrors
  \o outputParsingErrors
  \o modelConfigParsingErrors
  \o toolsParsingErrors
  \o invocationParametersParsingErrors

\* span: [id, attributes, invocationParameters]; nextMessage, nextTool: the
\* id counters when the call starts
transformSpanAttributesToPlaygroundInstance(span, nextMessage, nextTool) ==
  With([basePlaygroundInstance \in {createPlaygroundInstance} |->
  With([parsed \in {safelyParseJSON(span.attributes)} |->
    IF ~IsNullish(parsed.parseError)
    THEN parseErrorResult(span, basePlaygroundInstance)
    ELSE
  With([parsedAttributes \in {parsed.json} |->
  With([baseModelConfigResult \in
          {getBaseModelConfigFromAttributes(parsedAttributes)} |->
  With([provider \in
          {IF IsNullish(baseModelConfigResult.modelConfig)
           THEN basePlaygroundInstance.model.provider
           ELSE baseModelConfigResult.modelConfig.provider} |->
  With([messagesResult \in
          {getTemplateMessagesFromAttributes(
             provider, parsedAttributes, nextMessage)} |->
    IF IsFault(messagesResult) THEN messagesResult ELSE
  With([nextOutputMessage \in
          {nextMessage + IF IsNullish(messagesResult.messages)
                         THEN 0 ELSE Len(messagesResult.messages.v)} |->
  With([outputResult \in
          {getOutputFromAttributes(
             provider, parsedAttributes, nextOutputMessage)} |->
    IF IsFault(outputResult) THEN outputResult ELSE
  With([invocationResult \in
          {getModelInvocationParametersFromAttributes(
             parsedAttributes, span.invocationParameters)} |->
  With([modelConfig \in
          {IF ~IsNullish(baseModelConfigResult.modelConfig)
           THEN [baseModelConfigResult.modelConfig EXCEPT
                   !.invocationParameters =
                     invocationResult.invocationParameters]
           ELSE Null} |->
  With([toolsResult \in
          {getToolsFromAttributes(parsedAttributes, nextTool)} |->
    [playgroundInstance |->
       mergedPlaygroundInstance(span, basePlaygroundInstance, modelConfig,
                                messagesResult.messages, outputResult.output,
                                toolsResult.tools),
     parsingErrors |->
       mergedParsingErrors(messagesResult.messageParsingErrors,
                           outputResult.outputParsingErrors,
                           baseModelConfigResult.parsingErrors,
                           toolsResult.parsingErrors,
                           invocationResult.parsingErrors)]
  ])])])])])])])])])])])
----------------------------------------------------------------------------
(* Inputs *)

Absent == Undefined

ArgumentMaps == {Obj(NoKeys), Obj("city" :> Str("SF"))}

FunctionValues ==
  {Absent, Str("fn")} \cup
  { Obj(Field("name", n) @@ Field("arguments", a) @@ Field("strict", e)) :
      n \in {Absent, Str("fn")},
      a \in {Absent, Str("s")} \cup ArgumentMaps,
      e \in {Absent, Num(1)} }

\* objects over the keys both dialects read, plus an undeclared key
ToolCallObjects ==
  { Obj(Field("id", i) @@ Field("function", f) @@ Field("type", ty)
          @@ Field("name", n) @@ Field("input", inp) @@ Field("index", e)) :
      i \in {Absent, Str("call_1")},
      f \in FunctionValues,
      ty \in {Absent, Str("tool_use"), Str("text")},
      n \in {Absent, Str("nm")},
      inp \in {Absent, Str("s")} \cup ArgumentMaps,
      e \in {Absent, Num(1)} }

ToolCallValues ==
  ToolCallObjects \cup {Null, Str("call_1"), Num(1), Arr(<<>>)}

\* the tool calls a chat message may hold: one per detection outcome
OpenAISample ==
  Obj([id |-> Str("call_1"),
       function |-> Obj([name |-> Str("fn"),
                         arguments |-> Obj("city" :> Str("SF"))])])

AnthropicSample ==
  Obj([id |-> Str("call_1"), type |-> Str("tool_use"), name |-> Str("nm"),
       input |-> Obj("city" :> Str("SF"))])

BothShapesSample ==
  Obj([id |-> Str("call_1"), type |-> Str("tool_use"), name |-> Str("nm"),
       input |-> Obj(NoKeys),
       function |-> Obj([name |-> Str("fn"), arguments |-> Obj(NoKeys)])])

TextArgumentsSample ==
  Obj([id |-> Str("call_1"),
       function |-> Obj([name |-> Str("fn"), arguments |-> Str("s")])])

MessageToolCallValues ==
  {OpenAISample, AnthropicSample, BothShapesSample, TextArgumentsSample,
   Obj("foo" :> Num(1))}

MaxToolCalls == 2

SeqsUpTo(S, n) == UNION {[1..k -> S] : k \in 0..n}

MessageToolCalls ==
  {Undefined} \cup {Arr(q) : q \in SeqsUpTo(MessageToolCallValues, MaxToolCalls)}

\* llm.input_messages / llm.output_messages entries
UserMessage ==
  Obj("message" :> Obj([role |-> Str("user"), content |-> Str("hi")]))

ToolCallingMessage ==
  Obj("message" :>
    Obj([role |-> Str("ai"),
         tool_calls |->
           Arr(<< Obj("tool_call" :>
                    Obj([id |-> Str("call_1"),
                         function |->
                           Obj([name |-> Str("fn"),
                                arguments |-> Str("{\"city\":\"SF\"}")])])),
                  Obj(NoKeys),
                  Obj("tool_call" :>
                    Obj("function" :> Obj("arguments" :> Str("{invalid")))) >>)]))

UnknownRoleMessage ==
  Obj("message" :> Obj("role" :> Str("narrator")))

\* no role: fails the message shape
MalformedMessage ==
  Obj("message" :> Obj("content" :> Str("hi")))

WellFormedMessages == {UserMessage, ToolCallingMessage, UnknownRoleMessage}

MaxMessages == 2

InputMessagesValues ==
  {Absent, Str("not-a-list"), Arr(<<UserMessage, MalformedMessage>>)}
  \cup {Arr(q) : q \in SeqsUpTo(WellFormedMessages, MaxMessages)}

OutputMessagesValues ==
  {Absent, Str("not-a-list"), Arr(<<ToolCallingMessage>>)}

\* the output group: missing, without a text value, or with one
OutputValues ==
  {Absent, Obj("value" :> Num(1)), Obj("value" :> Str("done"))}

ModelNameValues ==
  {Absent,
   Str(<<"g", "p", "t", "-", "4">>),
   Str(<<"c", "l", "a", "u", "d", "e", "-", "3">>),
   Str(<<"m", "y", "-", "l", "l", "m">>)}

\* model names: with no prefix of the table, with one, and with prefixes of
\* two providers in either order
ModelNames ==
  {<<>>,
   <<"m", "y", "-", "l", "l", "m">>,
   <<"g", "p", "t", "-", "4">>,
   <<"o", "1", "-", "m", "i", "n", "i">>,
   <<"c", "l", "a", "u", "d", "e", "-", "3">>,
   <<"f", "t", ":", "g", "p", "t", "-", "4">>,
   <<"g", "p", "t", "-", "c", "l", "a", "u", "d", "e">>,
   <<"c", "l", "a", "u", "d", "e", "-", "g", "p", "t">>,
   <<"c", "l", "a", "u", "d", "e", "-", "o", "1">>}

InvocationParametersValues ==
  {Absent,
   OrderedObj(<< <<"T", "o", "p", "_", "p">>, <<"s", "e", "e", "d">> >>,
              (<<"T", "o", "p", "_", "p">> :> Num(1))
              @@ (<<"s", "e", "e", "d">> :> Num(7)))}

ToolsValues ==
  {Absent, Str("not-a-list"),
   Arr(<< Obj("tool" :> Obj("json_schema" :> Obj("name" :> Str("get_weather")))),
          Obj(NoKeys) >>)}

\* the parsed attributes: an object with an optional llm group and an
\* optional output group
AttributesDoc(llm, output) == Obj(Field("llm", llm) @@ Field("output", output))

LlmGroup(input_messages, output_messages, model_name, invocation_parameters, tools) ==
  Obj(Field("input_messages", input_messages)
      @@ Field("output_messages", output_messages)
      @@ Field("model_name", model_name)
      @@ Field("invocation_parameters", invocation_parameters)
      @@ Field("tools", tools))

\* the groups of a span: every combination of a failing and a passing value
\* of each group
SpanLlmGroups ==
  {Absent} \cup
  { LlmGroup(im, om, mn, ip, tl) :
      im \in {Absent, Arr(<<UserMessage, MalformedMessage>>), Arr(<<>>)}
              \cup {Arr(q) : q \in [1..MaxMessages -> {UserMessage, ToolCallingMessage}]},
      om \in {Str("not-a-list"), Arr(<<ToolCallingMessage>>)},
      mn \in ModelNameValues,
      ip \in InvocationParametersValues,
      tl \in ToolsValues }

ParsedAttributes ==
  {AttributesDoc(llm, out) : llm \in SpanLlmGroups, out \in OutputValues}

\* attributes in which one group varies and the others are fixed
ToolsAttributes ==
  {AttributesDoc(llm, Absent) : llm \in
     {Absent, Obj(NoKeys)} \cup
     {LlmGroup(Absent, Absent, mn, Absent, tl) :
        mn \in {Absent, Str(<<"g", "p", "t", "-", "4">>)}, tl \in ToolsValues}}

OutputAttributes ==
  {AttributesDoc(llm, out) :
     llm \in {Absent} \cup
             {LlmGroup(Absent, om, Absent, Absent, Absent) :
                om \in OutputMessagesValues \cup {Arr(<<>>), Arr(<<MalformedMessage>>),
                                                   Arr(<<UserMessage, UnknownRoleMessage>>)}},
     out \in OutputValues \cup {Obj(NoKeys)}}

InputAttributes ==
  {AttributesDoc(llm, Absent) :
     llm \in {Absent} \cup
             {LlmGroup(im, Absent, Absent, Absent, tl) :
                im \in InputMessagesValues, tl \in ToolsValues}}

\* the definitions a span's model declares
TopP ==
  [invocationName |-> Str(<<"t", "o", "p", "_", "p">>),
   canonicalName |-> Str(<<"T", "O", "P", "_", "P">>),
   invocationInputField |-> Str(<<"v", "a", "l", "u", "e", "_", "f", "l", "o", "a", "t">>)]

Seed ==
  [invocationName |-> Str(<<"s", "e", "e", "d">>),
   canonicalName |-> Null,
   invocationInputField |-> Str(<<"v", "a", "l", "u", "e", "_", "i", "n", "t">>)]

SpanInvocationParameters == {<<>>, <<TopP, Seed>>}

\* a definition without an input field, and one without an invocation name
\* whose canonical name is SEED
Stop ==
  [invocationName |-> Str(<<"s", "t", "o", "p">>),
   canonicalName |-> Null,
   invocationInputField |-> Null]

CanonicalSeed ==
  [invocationName |-> Null,
   canonicalName |-> Str(<<"S", "E", "E", "D">>),
   invocationInputField |-> Str(<<"v", "a", "l", "u", "e", "_", "i", "n", "t">>)]

\* another provider's name for the canonical parameter TOP_P
NucleusP ==
  [invocationName |-> Str(<<"p">>),
   canonicalName |-> Str(<<"T", "O", "P", "_", "P">>),
   invocationInputField |-> Str(<<"v", "a", "l", "u", "e", "_", "f", "l", "o", "a", "t">>)]

MaxDefinitions == 2

\* the definition lists a model may declare
DefinitionLists ==
  SeqsUpTo({TopP, Seed, Stop, CanonicalSeed, NucleusP}, MaxDefinitions)

\* inputs built for an earlier definition set
TopPInput ==
  [canonicalName |-> Str(<<"T", "O", "P", "_", "P">>),
   invocationName |-> Str(<<"t", "o", "p", "_", "p">>),
   slot |-> <<"v", "a", "l", "u", "e", "F", "l", "o", "a", "t">>,
   value |-> Num(1)]

SeedInput ==
  [canonicalName |-> Null,
   invocationName |-> Str(<<"s", "e", "e", "d">>),
   slot |-> <<"v", "a", "l", "u", "e", "I", "n", "t">>,
   value |-> Num(7)]

RandomSeedInput ==
  [canonicalName |-> Str(<<"S", "E", "E", "D">>),
   invocationName |-> Str(<<"r", "a", "n", "d", "o", "m", "_", "s", "e", "e", "d">>),
   slot |-> <<"v", "a", "l", "u", "e", "I", "n", "t">>,
   value |-> Num(7)]

SeedUppercaseInput ==
  [canonicalName |-> Undefined,
   invocationName |-> Str(<<"S", "e", "e", "d">>),
   slot |-> <<"v", "a", "l", "u", "e", "I", "n", "t">>,
   value |-> Num(7)]

MaxInputs == 2

InvocationParameterInputLists ==
  SeqsUpTo({TopPInput, SeedInput, RandomSeedInput, SeedUppercaseInput}, MaxInputs)

\* the raw llm.invocation_parameters entries: key and value
RawParameters ==
  (<<"T", "o", "p", "_", "p">> :> Num(1))
  @@ (<<"s", "e", "e", "d">> :> Num(7))
  @@ (<<"s", "t", "o", "p">> :> Str("END"))
  @@ (<<"u", "n", "k", "n", "o", "w", "n", "_", "p", "a", "r", "a", "m">>
        :> Num(1))

MaxParameters == 2

\* the raw maps: up to MaxParameters distinct keys in any insertion order
RawParameterMaps ==
  {OrderedObj(keys, [k \in {keys[i] : i \in 1..Len(keys)} |-> RawParameters[k]]) :
     keys \in {q \in SeqsUpTo(DOMAIN RawParameters, MaxParameters) :
                 \A i, j \in 1..Len(q) : i # j => q[i] # q[j]}}

AttributeTexts ==
  {RawText("{invalid"), RawText("not json"), RawText("null"), RawText("{}")}
  \cup {JSONText(doc) : doc \in ParsedAttributes}

Spans ==
  {[id |-> Str("span-1"), attributes |-> text, invocationParameters |-> defs] :
     text \in AttributeTexts, defs \in SpanInvocationParameters}

\* the ids one call may leave issued: calls are not started past it
MaxIssuedIds == 3

\* the message ids a result carries
IssuedMessageIds(x) ==
  IF IsFault(x) \/ IsNullish(x) \/ x.t # "arr" THEN 0 ELSE Len(x.v)

\* the messages map() reached: all of them, or those up to the first one
\* whose tool calls raise (its id is generated before its tool calls are read)
MessagesReached(messages, provider) ==
  LET bad == {i \in 1..Len(messages) :
                IsFault(processAttributeToolCalls(
                          Get(messages[i].v.message, "tool_calls"), provider))}
  IN  IF bad = {} THEN Len(messages)
      ELSE CHOOSE i \in bad : \A j \in bad : i <= j

----------------------------------------------------------------------------
(* State machine: the caller is idle, calls one exported function, reads   *)
(* the result and drops it.  Only the id counters outlive a call.          *)

Idle == op = "idle"

Init ==
  /\ op = "idle"
  /\ input = Null
  /\ result = Null
  /\ messageId = 0
  /\ toolId = 0

DetectToolCallProvider ==
  /\ Idle
  /\ \E toolCall \in ToolCallValues :
       /\ op' = "detectToolCallProvider"
       /\ input' = toolCall
       /\ result' = detectToolCallProvider(toolCall)
  /\ UNCHANGED <<messageId, toolId>>

ToOpenAIToolCall ==
  /\ Idle
  /\ \E toolCall \in ToolCallValues :
       /\ op' = "toOpenAIToolCall"
       /\ input' = toolCall
       /\ result' = toOpenAIToolCall(toolCall)
  /\ UNCHANGED <<messageId, toolId>>

FromOpenAIToolCall ==
  /\ Idle
  /\ \E toolCall \in ToolCallValues, targetProvider \in ModelProvider :
       /\ op' = "fromOpenAIToolCall"
       /\ input' = [toolCall |-> toolCall, targetProvider |-> targetProvider]
       /\ result' = fromOpenAIToolCall(toolCall, targetProvider)
  /\ UNCHANGED <<messageId, toolId>>

ConvertMessageToolCallsToProvider ==
  /\ Idle
  /\ \E toolCalls \in MessageToolCalls, provider \in ModelProvider :
       /\ op' = "convertMessageToolCallsToProvider"
       /\ input' = [toolCalls |-> toolCalls, provider |-> provider]
       /\ result' = convertMessageToolCallsToProvider(toolCalls, provider)
  /\ UNCHANGED <<messageId, toolId>>

GetToolsFromAttributes ==
  /\ Idle
  /\ \E parsedAttributes \in ToolsAttributes :
       /\ op' = "getToolsFromAttributes"
       /\ input' = parsedAttributes
       /\ result' = getToolsFromAttributes(parsedAttributes, toolId)
       /\ toolId' = toolId + IssuedMessageIds(result'.tools)
       /\ toolId' <= MaxIssuedIds
  /\ UNCHANGED messageId

GetOutputFromAttributes ==
  /\ Idle
  /\ \E parsedAttributes \in OutputAttributes, provider \in ModelProvider :
       /\ op' = "getOutputFromAttributes"
       /\ input' = [provider |-> provider, parsedAttributes |-> parsedAttributes]
       /\ result' = getOutputFromAttributes(provider, parsedAttributes, messageId)
       /\ messageId' = messageId
            + (IF IsFault(result')
               THEN MessagesReached(
                      parsedAttributes.v.llm.v.output_messages.v, provider)
               ELSE IssuedMessageIds(result'.output))
       /\ messageId' <= MaxIssuedIds
  /\ UNCHANGED toolId

GetTemplateMessagesFromAttributes ==
  /\ Idle
  /\ \E parsedAttributes \in InputAttributes, provider \in ModelProvider :
       /\ op' = "getTemplateMessagesFromAttributes"
       /\ input' = [provider |-> provider, parsedAttributes |-> parsedAttributes]
       /\ result' = getTemplateMessagesFromAttributes(
                      provider, parsedAttributes, messageId)
       /\ messageId' = messageId
            + (IF IsFault(result')
               THEN MessagesReached(
                      parsedAttributes.v.llm.v.input_messages.v, provider)
               ELSE IssuedMessageIds(result'.messages))
       /\ messageId' <= MaxIssuedIds
  /\ UNCHANGED toolId

TransformSpanAttributesToPlaygroundInstance ==
  /\ Idle
  /\ \E span \in Spans :
       /\ op' = "transformSpanAttributesToPlaygroundInstance"
       /\ input' = span
       /\ result' = transformSpanAttributesToPlaygroundInstance(
                      span, messageId, toolId)
       /\ LET instance == result'.playgroundInstance
              parsed == IsNullish(safelyParseJSON(span.attributes).parseError)
          IN  /\ messageId' = messageId
                   + (IF parsed /\ instance.template # DefaultTemplate
                      THEN Len(instance.template.messages) ELSE 0)
                   + IssuedMessageIds(instance.output)
              /\ toolId' = toolId + (IF parsed THEN Len(instance.tools) ELSE 0)
       /\ messageId' <= MaxIssuedIds
       /\ toolId' <= MaxIssuedIds

TransformInvocationParametersFromAttributesToInvocationParameterInputs ==
  /\ Idle
  /\ \E invocationParameters \in RawParameterMaps,
        modelSupportedInvocationParameters \in DefinitionLists :
       /\ op' = "transformInvocationParametersFromAttributesToInvocationParameterInputs"
       /\ input' = [invocationParameters |-> invocationParameters,
                    modelSupportedInvocationParameters |->
                      modelSupportedInvocationParameters]
       /\ result' =
            transformInvocationParametersFromAttributesToInvocationParameterInputs(
              invocationParameters, modelSupportedInvocationParameters)
  /\ UNCHANGED <<messageId, toolId>>

ConstrainInvocationParameterInputsToDefinition ==
  /\ Idle
  /\ \E invocationParameterInputs \in InvocationParameterInputLists,
        definitions \in DefinitionLists :
       /\ op' = "constrainInvocationParameterInputsToDefinition"
       /\ input' = [invocationParameterInputs |-> invocationParameterInputs,
                    definitions |-> definitions]
       /\ result' = constrainInvocationParameterInputsToDefinition(
                      invocationParameterInputs, definitions)
  /\ UNCHANGED <<messageId, toolId>>

GetModelProviderFromModelName ==
  /\ Idle
  /\ \E modelName \in ModelNames :
       /\ op' = "getModelProviderFromModelName"
       /\ input' = modelName
       /\ result' = getModelProviderFromModelName(modelName)
  /\ UNCHANGED <<messageId, toolId>>

CreateToolCallForProvider ==
  /\ Idle
  /\ \E provider \in ModelProvider :
       /\ op' = "createToolCallForProvider"
       /\ input' = provider
       /\ result' = createToolCallForProvider(provider)
  /\ UNCHANGED <<messageId, toolId>>

\* the caller has consumed the result; nothing of the call is retained
Discard ==
  /\ ~Idle
  /\ op' = "idle"
  /\ input' = Null
  /\ result' = Null
  /\ UNCHANGED <<messageId, toolId>>

Next ==
  \/ DetectToolCallProvider
  \/ ToOpenAIToolCall
  \/ FromOpenAIToolCall
  \/ ConvertMessageToolCallsToProvider
  \/ GetToolsFromAttributes
  \/ GetOutputFromAttributes
  \/ GetTemplateMessagesFromAttributes
  \/ TransformSpanAttributesToPlaygroundInstance
  \/ TransformInvocationParametersFromAttributesToInvocationParameterInputs
  \/ ConstrainInvocationParameterInputsToDefinition
  \/ GetModelProviderFromModelName
  \/ CreateToolCallForProvider
  \/ Discard

Spec == Init /\ [][Next]_vars

\* the builder is run again on the span of the call that has just returned;
\* the caller keeps both results
TransformSpanAttributesToPlaygroundInstanceAgain ==
  /\ op = "transformSpanAttributesToPlaygroundInstance"
  /\ op' = "transformSpanAttributesToPlaygroundInstanceAgain"
  /\ input' = input
  /\ result' = [first |-> result,
                second |-> transformSpanAttributesToPlaygroundInstance(
                             input, messageId, toolId)]
  /\ LET instance == result'.second.playgroundInstance
         parsed == IsNullish(safelyParseJSON(input.attributes).parseError)
     IN  /\ messageId' = messageId
              + (IF parsed /\ instance.template # DefaultTemplate
                 THEN Len(instance.template.messages) ELSE 0)
              + IssuedMessageIds(instance.output)
         /\ toolId' = toolId + (IF parsed THEN Len(instance.tools) ELSE 0)

NextTwice ==
  \/ TransformSpanAttributesToPlaygroundInstance
  \/ TransformSpanAttributesToPlaygroundInstanceAgain
  \/ Discard

\* the builder run twice on the same span
SpecTwice == Init /\ [][NextTwice]_vars

----------------------------------------------------------------------------
(* Shapes the claims speak of, stated on the JSON value itself *)

IsMap(x) == x.t = "obj"

IsText(x) == x.t = "str"

HasKeys(x, keys) == x.t = "obj" /\ keys \subseteq DOMAIN x.v

\* object with id + function{name, arguments: map}, extra keys tolerated
OpenAIShape(x) ==
  /\ HasKeys(x, {"id", "function"})
  /\ IsText(x.v.id)
  /\ HasKeys(x.v.function, {"name", "arguments"})
  /\ IsText(x.v.function.v.name)
  /\ IsMap(x.v.function.v.arguments)

\* object with id, type == "tool_use", name, input: map, extra keys tolerated
AnthropicShape(x) ==
  /\ HasKeys(x, {"id", "type", "name", "input"})
  /\ IsText(x.v.id)
  /\ x.v.type = Str("tool_use")
  /\ IsText(x.v.name)
  /\ IsMap(x.v.input)

\* exactly the declared fields of the OpenAI wire shape
OpenAIClosed(x) ==
  /\ OpenAIShape(x)
  /\ DOMAIN x.v = {"id", "function"}
  /\ DOMAIN x.v.function.v = {"name", "arguments"}

\* exactly the declared fields of the Anthropic wire shape
AnthropicClosed(x) ==
  /\ AnthropicShape(x)
  /\ DOMAIN x.v = {"id", "type", "name", "input"}

InDialect(x, provider) ==
  IF provider = "ANTHROPIC" THEN AnthropicShape(x) ELSE OpenAIShape(x)

----------------------------------------------------------------------------
(* Claims *)

\* the error codes of a builder result
HasError(code) ==
  \E i \in 1..Len(result.parsingErrors) : result.parsingErrors[i] = code

\* the span's attributes text fails JSON ingestion
IngestionFails(span) == ~IsNullish(safelyParseJSON(span.attributes).parseError)

\* C1: fatal parse path.  When the span's attributes text fails JSON
\* ingestion the builder returns the default playground instance with only
\* spanId set and the error list [SPAN_ATTRIBUTES_PARSING_ERROR], and issues
\* no message or tool id (no extraction step ran); when ingestion succeeds,
\* SPAN_ATTRIBUTES_PARSING_ERROR is not in the returned error list.
C1_FatalParsePath ==
  /\ [](op = "transformSpanAttributesToPlaygroundInstance" =>
          IF IngestionFails(input)
          THEN result =
                 [playgroundInstance |->
                    [createPlaygroundInstance EXCEPT !.spanId = input.id],
                  parsingErrors |-> <<SPAN_ATTRIBUTES_PARSING_ERROR>>]
          ELSE /\ ~IsFault(result)
               /\ ~HasError(SPAN_ATTRIBUTES_PARSING_ERROR))
  /\ [][(op' = "transformSpanAttributesToPlaygroundInstance"
           /\ IngestionFails(input'))
          => (messageId' = messageId /\ toolId' = toolId)]_vars

\* C1 witness: an unparsable attributes text gave the default instance and
\* the single fatal error code
C1_Witness ==
  /\ op = "transformSpanAttributesToPlaygroundInstance"
  /\ input.attributes = RawText("{invalid")
  /\ result.playgroundInstance.template = DefaultTemplate
  /\ result.playgroundInstance.spanId = Str("span-1")
  /\ result.parsingErrors = <<SPAN_ATTRIBUTES_PARSING_ERROR>>

\* C2: tool-call conversion is total.  On the providers that
\* convertMessageToolCallsToProvider dispatches explicitly, every conversion
\* of every tool call value returns a tool call in the target dialect or
\* null and never raises; a tool call detected as UNKNOWN converted toward
\* ANTHROPIC yields null.
C2_ConversionTotal ==
  /\ op = "toOpenAIToolCall" =>
        ~IsFault(result) /\ (result = Null \/ OpenAIShape(result))
  /\ (op = "convertMessageToolCallsToProvider"
        /\ input.provider \in {"OPENAI", "AZURE_OPENAI", "ANTHROPIC"}
        /\ input.toolCalls.t = "arr") =>
        /\ ~IsFault(result)
        /\ result.t = "arr"
        /\ Len(result.v) = Len(input.toolCalls.v)
        /\ \A i \in 1..Len(result.v) :
             /\ result.v[i] = Null \/ InDialect(result.v[i], input.provider)
             /\ detectToolCallProvider(input.toolCalls.v[i]).provider = "UNKNOWN"
                  => result.v[i] = Null

\* the position of an error code's group in the fixed order messages,
\* output (messages, then value), model-config, tools, invocation-parameters
ErrorRank(code) ==
  CASE code = INPUT_MESSAGES_PARSING_ERROR -> 1
    [] code = OUTPUT_MESSAGES_PARSING_ERROR -> 2
    [] code = OUTPUT_VALUE_PARSING_ERROR -> 3
    [] code = MODEL_CONFIG_PARSING_ERROR -> 4
    [] code = TOOLS_PARSING_ERROR -> 5
    [] code = MODEL_CONFIG_WITH_INVOCATION_PARAMETERS_PARSING_ERROR -> 6
    [] OTHER -> 0

\* C3: error-list order.  For every ingested attributes value the builder's
\* error list is the concatenation of the error lists of the messages,
\* output, model-config, tools and invocation-parameters groups in that
\* order: the codes appear in strictly increasing group order (so none
\* appears twice) and none produced by a group is lost.
C3_ErrorListOrder ==
  (op = "transformSpanAttributesToPlaygroundInstance"
     /\ ~IngestionFails(input)) =>
    LET parsedAttributes == safelyParseJSON(input.attributes).json
        provider == result.playgroundInstance.model.provider
        errors == result.parsingErrors
    IN  /\ ~IsFault(result)
        /\ errors =
             getTemplateMessagesFromAttributes(
               provider, parsedAttributes, 0).messageParsingErrors
             \o getOutputFromAttributes(
                  provider, parsedAttributes, 0).outputParsingErrors
             \o getBaseModelConfigFromAttributes(parsedAttributes).parsingErrors
             \o getToolsFromAttributes(parsedAttributes, 0).parsingErrors
             \o getModelInvocationParametersFromAttributes(
                  parsedAttributes, input.invocationParameters).parsingErrors
        /\ \A i \in 1..Len(errors) : ErrorRank(errors[i]) > 0
        /\ \A i, j \in 1..Len(errors) :
             i < j => ErrorRank(errors[i]) < ErrorRank(errors[j])

\* C3 witness: every group of an ingested attributes value failed and the
\* six codes came back in group order
C3_Witness ==
  /\ op = "transformSpanAttributesToPlaygroundInstance"
  /\ ~IngestionFails(input)
  /\ result.parsingErrors =
       <<INPUT_MESSAGES_PARSING_ERROR,
         OUTPUT_MESSAGES_PARSING_ERROR,
         OUTPUT_VALUE_PARSING_ERROR,
         MODEL_CONFIG_PARSING_ERROR,
         TOOLS_PARSING_ERROR,
         MODEL_CONFIG_WITH_INVOCATION_PARAMETERS_PARSING_ERROR>>

\* C4: partial success.  For every ingested attributes value the builder
\* returns a result, never a failure; when llm.input_messages is valid the
\* template is a chat template with one message per input message in the
\* same order, whatever the other groups do; a group reports its error code
\* exactly when it fails, and a failed group leaves its field at the default
\* (template, model, tools) or undefined (output).
C4_PartialSuccess ==
  (op = "transformSpanAttributesToPlaygroundInstance"
     /\ ~IngestionFails(input)) =>
    LET parsedAttributes == safelyParseJSON(input.attributes).json
        llm == Get(parsedAttributes, "llm")
        inputMessages == Get(llm, "input_messages")
        instance == result.playgroundInstance
        messages == instance.template.messages
    IN  /\ ~IsFault(result)
        /\ instance.spanId = input.id
        /\ messagesSchema(inputMessages) =>
             /\ ~HasError(INPUT_MESSAGES_PARSING_ERROR)
             /\ instance.template.__type = "chat"
             /\ Len(messages) = Len(inputMessages.v)
             /\ \A i \in 1..Len(messages) :
                  /\ messages[i].role =
                       getChatRole(inputMessages.v[i].v.message.v.role.v)
                  /\ messages[i].content =
                       Get(inputMessages.v[i].v.message, "content")
        /\ ~messagesSchema(inputMessages) =>
             /\ HasError(INPUT_MESSAGES_PARSING_ERROR)
             /\ instance.template = createPlaygroundInstance.template
        /\ HasError(MODEL_CONFIG_PARSING_ERROR)
             <=> ~zString(Get(llm, "model_name"))
        /\ HasError(MODEL_CONFIG_PARSING_ERROR) =>
             instance.model = createPlaygroundInstance.model
        /\ HasError(TOOLS_PARSING_ERROR)
             <=> ~llmToolSchema(parsedAttributes).success
        /\ HasError(TOOLS_PARSING_ERROR) =>
             instance.tools = createPlaygroundInstance.tools
        /\ HasError(OUTPUT_VALUE_PARSING_ERROR)
             <=> /\ ~messagesSchema(Get(llm, "output_messages"))
                 /\ ~zString(Get(Get(parsedAttributes, "output"), "value"))
        /\ HasError(OUTPUT_VALUE_PARSING_ERROR) =>
             instance.output = Undefined
        /\ HasError(MODEL_CONFIG_WITH_INVOCATION_PARAMETERS_PARSING_ERROR)
             <=> ~modelConfigWithInvocationParametersSchema(
                    parsedAttributes).success

\* C4 witness: two valid input messages came back as a chat template while
\* the tools, model-config and output groups all failed
C4_Witness ==
  /\ op = "transformSpanAttributesToPlaygroundInstance"
  /\ ~IngestionFails(input)
  /\ HasError(TOOLS_PARSING_ERROR)
  /\ HasError(MODEL_CONFIG_PARSING_ERROR)
  /\ HasError(OUTPUT_VALUE_PARSING_ERROR)
  /\ ~HasError(INPUT_MESSAGES_PARSING_ERROR)
  /\ Len(result.playgroundInstance.template.messages) = 2
  /\ result.playgroundInstance.template.messages[2].role = "assistant"

\* the tools shape: an ordered list of {tool?: {json_schema}} entries
WellFormedTools(tools) ==
  tools.t = "arr" /\ \A i \in 1..Len(tools.v) : toolEntrySchema(tools.v[i])

C6_OutputFallback ==
  op = "getOutputFromAttributes" =>
    LET outputMessages ==
          Get(Get(input.parsedAttributes, "llm"), "output_messages")
        value == Get(Get(input.parsedAttributes, "output"), "value")
    IN  /\ ~IsFault(result)
        /\ messagesSchema(outputMessages) =>
             /\ result.outputParsingErrors = <<>>
             /\ result.output.t = "arr"
             /\ Len(result.output.v) = Len(outputMessages.v)
        /\ (~messagesSchema(outputMessages) /\ zString(value)) =>
             result = [output |-> value,
                       outputParsingErrors |->
                         <<OUTPUT_MESSAGES_PARSING_ERROR>>]
        /\ (~messagesSchema(outputMessages) /\ ~zString(value)) =>
             result = [output |-> Undefined,
                       outputParsingErrors |->
                         <<OUTPUT_MESSAGES_PARSING_ERROR,
                           OUTPUT_VALUE_PARSING_ERROR>>]

\* C7: detection tries OpenAI, then Anthropic, then UNKNOWN.  A value of the
\* OpenAI shape is reported OPENAI (never AZURE_OPENAI) even when it has the
\* Anthropic shape too; ANTHROPIC is reported only for a value that fails the
\* OpenAI shape and has the Anthropic one; anything else is UNKNOWN with a
\* null validated value.
C7_DetectionOrder ==
  op = "detectToolCallProvider" =>
    /\ result.provider # "AZURE_OPENAI"
    /\ OpenAIShape(input) => result.provider = "OPENAI"
    /\ (~OpenAIShape(input) /\ AnthropicShape(input))
          => result.provider = "ANTHROPIC"
    /\ (~OpenAIShape(input) /\ ~AnthropicShape(input))
          => result = [provider |-> "UNKNOWN", validatedToolCall |-> Null]

\* C7 witness: a value of both shapes was detected as OPENAI
C7_Witness ==
  /\ op = "detectToolCallProvider"
  /\ OpenAIShape(input) /\ AnthropicShape(input)
  /\ result.provider = "OPENAI"

\* C8: open match, closed output.  The validated tool call of every accepted
\* value holds only the fields its schema declares (OpenAI: id,
\* function.name, function.arguments; Anthropic: id, type, name, input);
\* every undeclared key of the input is absent from it.
C8_ClosedOutput ==
  op = "detectToolCallProvider" =>
    /\ result.provider = "OPENAI" => OpenAIClosed(result.validatedToolCall)
    /\ result.provider = "ANTHROPIC" => AnthropicClosed(result.validatedToolCall)

\* C9: round trip.  For every valid OpenAI tool call t with map arguments,
\* toOpenAIToolCall(fromOpenAIToolCall(t, ANTHROPIC)) is non-null and has
\* t's id, function.name and function.arguments.
C9_RoundTrip ==
  (/\ op = "fromOpenAIToolCall"
   /\ input.targetProvider = "ANTHROPIC"
   /\ OpenAIShape(input.toolCall)) =>
    LET back == toOpenAIToolCall(result)
    IN  /\ ~IsFault(result)
        /\ back # Null
        /\ OpenAIShape(back)
        /\ back.v.id = input.toolCall.v.id
        /\ back.v.function.v.name = input.toolCall.v.function.v.name
        /\ back.v.function.v.arguments = input.toolCall.v.function.v.arguments

\* C9 witness: an OpenAI tool call with a non-empty arguments map was
\* converted to the Anthropic dialect
C9_Witness ==
  /\ op = "fromOpenAIToolCall"
  /\ input.targetProvider = "ANTHROPIC"
  /\ OpenAIShape(input.toolCall)
  /\ input.toolCall.v.function.v.arguments = Obj("city" :> Str("SF"))
  /\ AnthropicShape(result)

\* an OpenAI-shaped tool call whose function.arguments is a text value
OpenAIShapeWithTextArguments(x) ==
  /\ HasKeys(x, {"id", "function"})
  /\ IsText(x.v.id)
  /\ HasKeys(x.v.function, {"name", "arguments"})
  /\ IsText(x.v.function.v.name)
  /\ IsText(x.v.function.v.arguments)

\* C10: fromOpenAIToolCall toward ANTHROPIC wraps text arguments s as the
\* single-entry map {s: s} in input, and passes map arguments m through as
\* input = m; id, type "tool_use" and name are set in both cases.
C10_TextArgumentsWrapped ==
  (op = "fromOpenAIToolCall" /\ input.targetProvider = "ANTHROPIC") =>
    LET call == input.toolCall
        arguments == call.v.function.v.arguments
    IN  /\ OpenAIShapeWithTextArguments(call) =>
              result = Obj([id |-> call.v.id,
                            type |-> Str("tool_use"),
                            name |-> call.v.function.v.name,
                            input |-> Obj(arguments.v :> arguments)])
        /\ OpenAIShape(call) =>
              result = Obj([id |-> call.v.id,
                            type |-> Str("tool_use"),
                            name |-> call.v.function.v.name,
                            input |-> arguments])

\* the OpenAI call an Anthropic call converts to
OpenAIFromAnthropic(x) ==
  Obj([id |-> x.v.id,
       function |-> Obj([name |-> x.v.name, arguments |-> x.v.input])])

\* C11 (as claimed): toOpenAIToolCall returns an OpenAI-dialect input
\* unchanged, returns {id, function: {name, arguments: input}} for an
\* Anthropic-dialect input, and returns null exactly for an UNKNOWN input;
\* fromOpenAIToolCall is the identity for the OPENAI, AZURE_OPENAI and
\* GEMINI targets.
C11_ToOpenAIUnchanged ==
  /\ op = "toOpenAIToolCall" =>
       /\ OpenAIShape(input) => result = input
       /\ (~OpenAIShape(input) /\ AnthropicShape(input)) =>
            result = OpenAIFromAnthropic(input)
       /\ result = Null <=> (~OpenAIShape(input) /\ ~AnthropicShape(input))
  /\ (op = "fromOpenAIToolCall"
        /\ input.targetProvider \in {"OPENAI", "AZURE_OPENAI", "GEMINI"}) =>
       result = input.toolCall

\* C11 (amended): toOpenAIToolCall returns, for an OpenAI-dialect input, the
\* validated call: the input's id and its function with every key of the
\* function, without the input's other top-level keys; the Anthropic, UNKNOWN
\* and fromOpenAIToolCall parts are as claimed.
C11_ToOpenAIValidated ==
  /\ op = "toOpenAIToolCall" =>
       /\ OpenAIShape(input) =>
            result = Obj([id |-> input.v.id, function |-> input.v.function])
       /\ (~OpenAIShape(input) /\ AnthropicShape(input)) =>
            result = OpenAIFromAnthropic(input)
       /\ result = Null <=> (~OpenAIShape(input) /\ ~AnthropicShape(input))
  /\ (op = "fromOpenAIToolCall"
        /\ input.targetProvider \in {"OPENAI", "AZURE_OPENAI", "GEMINI"}) =>
       result = input.toolCall

\* C11 witness: an OpenAI-dialect input with an undeclared top-level key and
\* an undeclared function key came back with only the latter
C11_Witness ==
  /\ op = "toOpenAIToolCall"
  /\ OpenAIShape(input)
  /\ "index" \in DOMAIN input.v
  /\ "strict" \in DOMAIN input.v.function.v
  /\ "index" \notin DOMAIN result.v
  /\ "strict" \in DOMAIN result.v.function.v

\* the unreachable assertion of a dispatcher's default branch was reached
ReachedUnreachable == IsFault(result) /\ result.v = "Unreachable"

\* C12: provider dispatch is exhaustive.  For every provider of the closed
\* enum (OPENAI, AZURE_OPENAI, ANTHROPIC, GEMINI) no dispatcher reaches the
\* unreachable assertion of its default branch: processAttributeToolCalls
\* (through the message extraction), convertMessageToolCallsToProvider,
\* createToolCallForProvider and fromOpenAIToolCall.
C12_ExhaustiveDispatch ==
  op \in {"getTemplateMessagesFromAttributes", "getOutputFromAttributes",
          "convertMessageToolCallsToProvider", "createToolCallForProvider",
          "fromOpenAIToolCall"}
    => ~ReachedUnreachable

\* two texts are equal ignoring case
EqualIgnoringCase(a, b) ==
  /\ Len(a) = Len(b)
  /\ \A i \in 1..Len(a) : toLowerCaseChar(a[i]) = toLowerCaseChar(b[i])

\* definition d has a canonicalName or an invocationName equal to key
\* ignoring case
NamesKey(d, key) ==
  \/ d.canonicalName.t = "str" /\ EqualIgnoringCase(d.canonicalName.v, key)
  \/ d.invocationName.t = "str" /\ EqualIgnoringCase(d.invocationName.v, key)

\* the camelCase form of the input fields the definitions declare
CamelCaseForm(field) ==
  CASE field = <<"v", "a", "l", "u", "e", "_", "f", "l", "o", "a", "t">> ->
         <<"v", "a", "l", "u", "e", "F", "l", "o", "a", "t">>
    [] field = <<"v", "a", "l", "u", "e", "_", "i", "n", "t">> ->
         <<"v", "a", "l", "u", "e", "I", "n", "t">>

\* C13: reconcile.  Each (key, value) of the raw map is matched to the first
\* definition whose canonicalName or invocationName equals key ignoring
\* case; the entry is dropped when there is none or when that definition has
\* no inputField or no invocationName; otherwise one input is emitted with
\* the definition's canonicalName and invocationName and the value under the
\* camelCase form of its inputField.  The inputs keep the raw map's key
\* order, and a raw map no definition matches yields the empty list.
C13_Reconcile ==
  op = "transformInvocationParametersFromAttributesToInvocationParameterInputs" =>
    LET keys == input.invocationParameters.order
        values == input.invocationParameters.v
        definitions == input.modelSupportedInvocationParameters
        Matching(key) ==
          {d \in 1..Len(definitions) : NamesKey(definitions[d], key)}
        Matched(key) ==
          definitions[CHOOSE d \in Matching(key) :
                        \A e \in Matching(key) : d <= e]
        Emitted ==
          {i \in 1..Len(keys) :
             /\ Matching(keys[i]) # {}
             /\ Matched(keys[i]).invocationInputField.t = "str"
             /\ Matched(keys[i]).invocationName.t = "str"}
        Position(i) == Cardinality({j \in Emitted : j <= i})
    IN  /\ Len(result) = Cardinality(Emitted)
        /\ \A i \in Emitted :
             result[Position(i)] =
               [canonicalName |-> Matched(keys[i]).canonicalName,
                invocationName |-> Matched(keys[i]).invocationName,
                slot |-> CamelCaseForm(Matched(keys[i]).invocationInputField.v),
                value |-> values[keys[i]]]
        /\ (\A i \in 1..Len(keys) : Matching(keys[i]) = {}) => result = <<>>

\* C13 witness: seed, then Top_p matched through its canonical name in
\* another case, came back as two inputs in the raw map's order
C13_Witness ==
  /\ op = "transformInvocationParametersFromAttributesToInvocationParameterInputs"
  /\ input.invocationParameters.order =
       << <<"s", "e", "e", "d">>, <<"T", "o", "p", "_", "p">> >>
  /\ Len(result) = 2
  /\ result[1].invocationName = Str(<<"s", "e", "e", "d">>)
  /\ result[2].invocationName = Str(<<"t", "o", "p", "_", "p">>)
  /\ result[2].slot = <<"v", "a", "l", "u", "e", "F", "l", "o", "a", "t">>
  /\ result[2].value = Num(1)

\* the inputs of the call that some definition names exactly: by
\* invocationName, or by a canonicalName both have
Survivors ==
  LET definitions == input.definitions
      Named(ip) ==
        \E d \in 1..Len(definitions) :
          \/ definitions[d].invocationName = ip.invocationName
          \/ /\ definitions[d].canonicalName.t = "str"
             /\ ip.canonicalName.t = "str"
             /\ definitions[d].canonicalName.v = ip.canonicalName.v
  IN  SelectSeq(input.invocationParameterInputs, Named)

\* the invocation names the definitions of the call declare
DeclaredInvocationNames ==
  {input.definitions[d].invocationName : d \in 1..Len(input.definitions)}
    \ {Null, Undefined}

\* C14: constrain.  An input survives exactly when some definition has the
\* same invocationName, or both have a canonicalName and these are equal;
\* the survivors keep their order and every field but invocationName; and
\* each survivor's invocationName becomes the one the definitions declare
\* for its canonical parameter, so that it is a declared name.
C14_Constrain ==
  op = "constrainInvocationParameterInputsToDefinition" =>
    /\ Len(result) = Len(Survivors)
    /\ \A i \in 1..Len(Survivors) :
         /\ result[i].canonicalName = Survivors[i].canonicalName
         /\ result[i].slot = Survivors[i].slot
         /\ result[i].value = Survivors[i].value
         /\ result[i].invocationName \in DeclaredInvocationNames
         /\ \A d \in 1..Len(input.definitions) :
              /\ Survivors[i].canonicalName.t = "str"
              /\ input.definitions[d].canonicalName = Survivors[i].canonicalName
              /\ \A e \in 1..(d - 1) :
                   input.definitions[e].canonicalName # Survivors[i].canonicalName
              /\ input.definitions[d].invocationName.t = "str"
              => result[i].invocationName = input.definitions[d].invocationName

\* C18: constrain leaves the invocationName of an input without a
\* canonicalName (null or undefined) as it was: such an input survives only
\* through a definition with exactly its invocationName, and whatever the
\* definitions are, those without a canonicalName included, its
\* invocationName after constrain is the one it had before.
C18_NoCanonicalNameKept ==
  op = "constrainInvocationParameterInputsToDefinition" =>
    /\ Len(result) = Len(Survivors)
    /\ \A i \in 1..Len(Survivors) :
         Survivors[i].canonicalName.t \in {"null", "undefined"} =>
           /\ \E d \in 1..Len(input.definitions) :
                input.definitions[d].invocationName = Survivors[i].invocationName
           /\ result[i].invocationName = Survivors[i].invocationName

\* the attributes of the builder's call, parsed
BuilderAttributes == safelyParseJSON(input.attributes).json

\* C15: the model of the instance.  When the model-config group fails
\* (MODEL_CONFIG_PARSING_ERROR), the model is exactly the default instance's
\* model, whatever the invocation parameters reconcile to; when it
\* succeeds, the model has the extracted modelName, the provider inferred
\* from it, and as invocationParameters the reconciler's output, which is
\* the empty list when the invocation-parameters group failed.
C15_ModelOfInstance ==
  /\ op = "transformSpanAttributesToPlaygroundInstance"
  /\ ~IngestionFails(input)
  =>
    LET llm == Get(BuilderAttributes, "llm")
        model_name == Get(llm, "model_name")
        invocation_parameters == Get(llm, "invocation_parameters")
        model == result.playgroundInstance.model
    IN  IF model_name.t # "str"
        THEN /\ HasError(MODEL_CONFIG_PARSING_ERROR)
             /\ model = createPlaygroundInstance.model
        ELSE /\ ~HasError(MODEL_CONFIG_PARSING_ERROR)
             /\ model.modelName = model_name.v
             /\ model.provider = getModelProviderFromModelName(model_name.v)
             /\ model.invocationParameters =
                  IF HasError(MODEL_CONFIG_WITH_INVOCATION_PARAMETERS_PARSING_ERROR)
                  THEN <<>>
                  ELSE transformInvocationParametersFromAttributesToInvocationParameterInputs(
                         invocation_parameters, input.invocationParameters)
             /\ HasError(MODEL_CONFIG_WITH_INVOCATION_PARAMETERS_PARSING_ERROR)
                  <=> invocation_parameters.t # "obj"

\* C15 witness: the model-config group succeeded on claude-3 and both raw
\* invocation parameters were reconciled into the model
C15_Witness ==
  /\ op = "transformSpanAttributesToPlaygroundInstance"
  /\ ~IngestionFails(input)
  /\ ~HasError(MODEL_CONFIG_PARSING_ERROR)
  /\ result.playgroundInstance.model.modelName =
       <<"c", "l", "a", "u", "d", "e", "-", "3">>
  /\ result.playgroundInstance.model.provider = "ANTHROPIC"
  /\ Len(result.playgroundInstance.model.invocationParameters) = 2

\* a prefix of the table's i-th provider occurs in the model name of the call
PrefixOccurs(i) ==
  \E j \in 1..Len(modelProviderToModelPrefixMap[i].prefixes) :
    LET prefix == modelProviderToModelPrefixMap[i].prefixes[j]
    IN  \E k \in 1..(Len(input) - Len(prefix) + 1) :
          \A l \in 1..Len(prefix) : input[k + l - 1] = prefix[l]

ExtractedMessages(run) ==
  (IF run.playgroundInstance.template = DefaultTemplate THEN <<>>
   ELSE run.playgroundInstance.template.messages)
  \o (IF IssuedMessageIds(run.playgroundInstance.output) = 0 THEN <<>>
      ELSE run.playgroundInstance.output.v)

MessageIds(run) ==
  {ExtractedMessages(run)[i].id : i \in 1..Len(ExtractedMessages(run))}

ToolIds(run) ==
  {run.playgroundInstance.tools[i].id :
     i \in 1..Len(run.playgroundInstance.tools)}

\* a message or a tool without its generated id
WithoutMessageId(m) ==
  [role |-> m.role, content |-> m.content, toolCalls |-> m.toolCalls]

WithoutToolId(tool) == [definition |-> tool.definition]

\* what a run returned, with every generated id left out
Content(run) ==
  LET instance == run.playgroundInstance
  IN  [parsingErrors |-> run.parsingErrors,
       model |-> instance.model,
       spanId |-> instance.spanId,
       template |->
         [i \in 1..Len(instance.template.messages) |->
            WithoutMessageId(instance.template.messages[i])],
       output |->
         IF IssuedMessageIds(instance.output) = 0 THEN instance.output
         ELSE Arr([i \in 1..Len(instance.output.v) |->
                     WithoutMessageId(instance.output.v[i])]),
       tools |-> [i \in 1..Len(instance.tools) |->
                    WithoutToolId(instance.tools[i])]]

BackToAnthropic ==
  /\ result # Null
  /\ ~IsFault(result)
  /\ LET back == fromOpenAIToolCall(result, "ANTHROPIC")
     IN  /\ ~IsFault(back)
         /\ AnthropicShape(back)
         /\ back.v.id = input.v.id
         /\ back.v.name = input.v.name
         /\ back.v.input = input.v.input

\* C19 as claimed: reverse round trip.  For every valid Anthropic tool call
\* (id, type "tool_use", name, map input, any extra keys, a function key
\* included), toOpenAIToolCall and then fromOpenAIToolCall(ANTHROPIC) give an
\* Anthropic tool call with the original id, name and input.
C19_ReverseRoundTrip ==
  (op = "toOpenAIToolCall" /\ AnthropicShape(input)) => BackToAnthropic

\* C19 amended: the reverse round trip gives back the original id, name and
\* input for every valid Anthropic tool call that is not also a valid OpenAI
\* tool call, i.e. whose extra keys hold no function object with a name and
\* map arguments.
C19_ReverseRoundTripUnlessOpenAI ==
  (op = "toOpenAIToolCall" /\ AnthropicShape(input) /\ ~OpenAIShape(input))
    => BackToAnthropic

\* C19 witness: an Anthropic tool call with a non-empty input, an extra key
\* and a function key that is no OpenAI function was converted to OpenAI
C19_Witness ==
  /\ op = "toOpenAIToolCall"
  /\ AnthropicShape(input)
  /\ HasKeys(input, {"function", "index"})
  /\ ~OpenAIShape(input)
  /\ input.v.input = Obj("city" :> Str("SF"))
  /\ result = OpenAIFromAnthropic(input)

====
